---- MODULE Spec2Model ----
(***************************************************************************)
(* Screen navigation and data-loading lifecycle of the Excel viewer        *)
(* (src/app.py): the Textual screen stack, the three thread workers        *)
(* (load_sheets, load_data, generate_ai_charts) and the UI callbacks they  *)
(* hand their results to with call_from_thread.                            *)
(***************************************************************************)
EXTENDS Integers, Sequences, FiniteSets, TLC

\* ---------------------------------------------------------------- bounds
\* Screen instances created during a run (ids 1..MaxScreens; id 0 is the
\* default screen Textual installs under every application screen).
MaxScreens == 3

ScreenIds == 0..MaxScreens

\* ---------------------------------------------------------------- inputs
\* Values typed into the #api-key-input field ("" is the empty field).
KeyInputs == {"", "k1"}

\* GOOGLE_API_KEY in the environment when the process starts.
StartupKeys == {"", "k0"}

\* Sorted listings of the xlsx/ folder (FileSelectionScreen.compose).
DirListings == {<<>>, <<"a.xlsx">>}

\* What xl.sheet_names may return, in workbook order.
SheetResults == {<<>>, <<"Q2", "Q1">>}

\* Exception texts of the spreadsheet reads.
ReadErrors == {"BadZipFile"}

\* Typed cells of a DataFrame: a number, a text, or a missing value.
Num(n) == [t |-> "num", n |-> n, s |-> ""]
Txt(s) == [t |-> "str", n |-> 0, s |-> s]
NaN == [t |-> "nan", n |-> 0, s |-> ""]

\* DataFrames pd.read_excel may return.
Frames ==
    { [columns |-> <<"Region", "Revenue">>,
       rows |-> << <<Txt("East"), Num(100)>>, <<NaN, Num(150)>> >>] }

\* Parsed replies of the model (json.loads): a list of suggestion objects,
\* or a JSON value that is not a list of objects.
Suggestion(type, column) == [type |-> type, column |-> column]
AiReplies ==
    { [iterable |-> TRUE,
       items |-> <<Suggestion("pie", "Region"), Suggestion("pie", "Nope")>>],
      [iterable |-> FALSE, items |-> <<>>] }

\* Failures of the remote call and of json.loads.
AiErrors == {"JSONDecodeError"}

\* ----------------------------------------------------------------- state
VARIABLES
    phase,          \* "init" before App.on_mount, "running", "exited"
    apiKey,         \* os.environ["GOOGLE_API_KEY"] ("" when unset)
    screen_stack,   \* App.screen_stack: sequence of screen ids, bottom first
    screens,        \* id -> [kind, file_path, sheet_name] (constructor args)
    dom,            \* id -> "unused" | "mounted" | "popped" | "pruned"
    ui,             \* id -> the screen's widgets (what the user is shown) and
                    \*       `steps`, the UI methods that updated them, in order
    df,             \* id -> DataViewerScreen.df
    worker,         \* id -> the screen's load_sheets / load_data worker
    aiworker,       \* id -> the screen's generate_ai_charts worker
    marks,          \* history: stack contents saved at each forward push
    widget,         \* the widget object under render(): its class and fields
    rendered        \* what its render() returned (a Panel of lines)

vars == <<phase, apiKey, screen_stack, screens, dom, ui, df, worker, aiworker,
          marks, widget, rendered>>

\* ------------------------------------------------------------- records
NoScreen == [kind |-> "None", file_path |-> <<>>, sheet_name |-> ""]

\* Widgets as composed: empty ListView, "Loading sheets..." label, empty
\* DataTable and Static panels.
Label(state, text) == [state |-> state, text |-> text]
Panel(state, lines) == [state |-> state, lines |-> lines]

NoWidgets ==
    [file_list |-> <<>>,
     loading_msg |-> Label("absent", <<>>),
     sheet_list |-> <<>>,
     no_sheets |-> FALSE,
     data_table |-> [columns |-> <<>>, rows |-> <<>>],
     stats_panel |-> Panel("empty", <<>>),
     charts_panel |-> Panel("empty", <<>>),
     steps |-> <<>>]

\* No widget is being rendered on its own.
NoWidget == [cls |-> "None"]

NoOutcome == [st |-> "none", val |-> <<>>]
Ok(v) == [st |-> "ok", val |-> v]
Err(e) == [st |-> "err", val |-> e]

\* A thread worker: pc is where its thread is.
\*   "none"  never started        "io"    in the blocking read / request
\*   "call"  blocked in call_from_thread(cb, arg); in_try tells whether
\*           the call stands inside the function's try block
\*   "done"  returned             "failed" raised out of the function
NoWorker ==
    [pc |-> "none", cb |-> "", arg |-> <<>>, outcome |-> NoOutcome,
     cancelled |-> FALSE, in_try |-> FALSE]

\* Worker.run for a @work(thread=True) method: the thread starts on its IO.
StartedWorker == [NoWorker EXCEPT !.pc = "io"]

Top == screen_stack[Len(screen_stack)]

KindOf(id) == screens[id].kind

Unused == {id \in ScreenIds : dom[id] = "unused"}

\* The id the next constructed screen gets.
NewId == CHOOSE id \in Unused : \A other \in Unused : id <= other

Front(s) == SubSeq(s, 1, Len(s) - 1)

\* The stack as the user could tell it apart: each entry's identity, kind
\* and constructor parameters, bottom first.
StackView ==
    [i \in 1..Len(screen_stack) |->
        [id |-> screen_stack[i],
         kind |-> screens[screen_stack[i]].kind,
         file_path |-> screens[screen_stack[i]].file_path,
         sheet_name |-> screens[screen_stack[i]].sheet_name]]

\* ------------------------------------------------------------------ Init
\* The App object as constructed: Textual's default screen alone on the
\* stack, nothing pushed yet.
Init ==
    /\ phase = "init"
    /\ apiKey \in StartupKeys
    /\ screen_stack = <<0>>
    /\ screens = [id \in ScreenIds |->
                    IF id = 0 THEN [NoScreen EXCEPT !.kind = "Default"]
                    ELSE NoScreen]
    /\ dom = [id \in ScreenIds |-> IF id = 0 THEN "mounted" ELSE "unused"]
    /\ ui = [id \in ScreenIds |-> NoWidgets]
    /\ df = [id \in ScreenIds |-> <<>>]
    /\ worker = [id \in ScreenIds |-> NoWorker]
    /\ aiworker = [id \in ScreenIds |-> NoWorker]
    /\ marks = <<>>
    /\ widget = NoWidget
    /\ rendered = Panel("empty", <<>>)


\* ------------------------------------------------------- screen stack ops
\* App.push_screen: the screen goes on top of the stack.
push_screen(stack, id) == Append(stack, id)

\* Mutant of pop_screen: the screen leaves the wrong end of the stack.
pop_first(stack) == Tail(stack)

\* App.pop_screen: the top screen leaves the stack.
pop_screen(stack) == Front(stack)

\* Mutant of replace_screen: the pop_screen call is missing.
replace_screen_keeps(stack, id) == push_screen(stack, id)

\* ApiKeyScreen.submit_key: pop_screen, then push_screen.
replace_screen(stack, id) == push_screen(pop_screen(stack), id)

\* ExcelViewerApp.action_pop_screen's test: pop, or exit at the last screen.
CanPop(stack) == Len(stack) > 1

\* Mutant of EntryKind: the file list is pushed without looking for a key.
EntryKind_no_check(key) == "FileList"

\* ExcelViewerApp.on_mount: the entry screen for the credential found.
EntryKind(key) == IF key = "" THEN "ApiKey" ELSE "FileList"

\* os.path.join("xlsx", selected_file)
JoinPath(folder, name) == <<folder, name>>

\* Mutant of DataViewerArgs: the path is rebuilt from the selected label.
DataViewerArgs_from_label(screen, sheet) ==
    [file_path |-> JoinPath("xlsx", sheet), sheet_name |-> sheet]

\* select_sheet: DataViewerScreen(self.file_path, selected_sheet)
DataViewerArgs(screen, sheet) ==
    [file_path |-> screen.file_path, sheet_name |-> sheet]

\* Mutant of MountWorker: DataViewerScreen.on_mount does not call load_data.
MountWorker_sheets_only(kind) ==
    IF kind = "SheetList" THEN StartedWorker ELSE NoWorker

\* The widgets a screen of the kind composes.
Composed(kind, listing) ==
    CASE kind = "FileList" -> [NoWidgets EXCEPT !.file_list = listing]
      [] kind = "SheetList" ->
            [NoWidgets EXCEPT
                !.loading_msg = Label("shown", <<"Loading sheets...">>)]
      [] OTHER -> NoWidgets

\* The worker a screen's on_mount starts.
MountWorker(kind) ==
    IF kind \in {"SheetList", "DataView"} THEN StartedWorker ELSE NoWorker

\* A screen of the kind is constructed as `id`, composed and mounted.
Mounted(id, kind, path, sheet, listing) ==
    /\ screens' = [screens EXCEPT ![id] =
                     [kind |-> kind, file_path |-> path, sheet_name |-> sheet]]
    /\ ui' = [ui EXCEPT ![id] = Composed(kind, listing)]
    /\ worker' = [worker EXCEPT ![id] = MountWorker(kind)]

\* --------------------------------------------------------- navigation
\* ExcelViewerApp.on_mount
AppOnMount ==
    /\ phase = "init"
    /\ phase' = "running"
    /\ \E listing \in DirListings :
          Mounted(NewId, EntryKind(apiKey), <<>>, "", listing)
    /\ screen_stack' = push_screen(screen_stack, NewId)
    /\ dom' = [dom EXCEPT ![NewId] = "mounted"]
    /\ UNCHANGED <<widget, rendered>>
    /\ UNCHANGED <<apiKey, df, aiworker, marks>>

\* ApiKeyScreen.submit_key with `key` in the input field.
submit_key(key) ==
    /\ phase = "running"
    /\ KindOf(Top) = "ApiKey"
    /\ IF key # ""
       THEN /\ Unused # {}
            /\ apiKey' = key
            /\ screen_stack' = replace_screen(screen_stack, NewId)
            /\ dom' = [dom EXCEPT ![Top] = "popped", ![NewId] = "mounted"]
            /\ \E listing \in DirListings :
                  Mounted(NewId, "FileList", <<>>, "", listing)
       ELSE UNCHANGED <<apiKey, screen_stack, dom, screens, ui, worker>>
    /\ UNCHANGED <<widget, rendered>>
    /\ UNCHANGED <<phase, df, aiworker, marks>>

\* FileSelectionScreen.select_file on the list item at `i`.
select_file(i) ==
    /\ phase = "running"
    /\ KindOf(Top) = "FileList"
    /\ i \in 1..Len(ui[Top].file_list)
    /\ Unused # {}
    /\ Mounted(NewId, "SheetList", JoinPath("xlsx", ui[Top].file_list[i]), "",
               <<>>)
    /\ screen_stack' = push_screen(screen_stack, NewId)
    /\ dom' = [dom EXCEPT ![NewId] = "mounted"]
    /\ marks' = Append(marks, StackView)
    /\ UNCHANGED <<widget, rendered>>
    /\ UNCHANGED <<phase, apiKey, df, aiworker>>

\* SheetSelectionScreen.select_sheet on the list item at `i`.
select_sheet(i) ==
    /\ phase = "running"
    /\ KindOf(Top) = "SheetList"
    /\ i \in 1..Len(ui[Top].sheet_list)
    /\ Unused # {}
    /\ Mounted(NewId, "DataView",
               DataViewerArgs(screens[Top], ui[Top].sheet_list[i]).file_path,
               DataViewerArgs(screens[Top], ui[Top].sheet_list[i]).sheet_name,
               <<>>)
    /\ screen_stack' = push_screen(screen_stack, NewId)
    /\ dom' = [dom EXCEPT ![NewId] = "mounted"]
    /\ marks' = Append(marks, StackView)
    /\ UNCHANGED <<widget, rendered>>
    /\ UNCHANGED <<phase, apiKey, df, aiworker>>

\* ExcelViewerApp.action_pop_screen (escape).
action_pop_screen ==
    /\ phase = "running"
    /\ IF CanPop(screen_stack)
       THEN /\ screen_stack' = pop_screen(screen_stack)
            /\ dom' = [dom EXCEPT ![Top] = "popped"]
            /\ marks' = IF marks # <<>> THEN Front(marks) ELSE marks
            /\ UNCHANGED phase
       ELSE /\ phase' = "exited"
            /\ UNCHANGED <<screen_stack, dom, marks>>
    /\ UNCHANGED <<widget, rendered>>
    /\ UNCHANGED <<apiKey, screens, ui, df, worker, aiworker>>

\* The "q" binding: App.action_quit.
action_quit ==
    /\ phase = "running"
    /\ phase' = "exited"
    /\ UNCHANGED <<widget, rendered>>
    /\ UNCHANGED <<apiKey, screen_stack, screens, dom, ui, df, worker,
                   aiworker, marks>>

\* Textual finishes removing a popped screen: its widgets leave the DOM and
\* the workers started on it are cancelled (the threads keep running: the
\* code never looks at is_cancelled).
Cancelled(w) == IF w.pc = "none" THEN w ELSE [w EXCEPT !.cancelled = TRUE]

Prune(id) ==
    /\ phase = "running"
    /\ dom[id] = "popped"
    /\ dom' = [dom EXCEPT ![id] = "pruned"]
    /\ worker' = [worker EXCEPT ![id] = Cancelled(worker[id])]
    /\ aiworker' = [aiworker EXCEPT ![id] = Cancelled(aiworker[id])]
    /\ UNCHANGED <<widget, rendered>>
    /\ UNCHANGED <<phase, apiKey, screen_stack, screens, ui, df, marks>>


\* ------------------------------------------------------------ workers
\* The thread hands (cb, arg) to the UI thread and blocks on the result.
Call(w, cb, arg, in_try) ==
    [w EXCEPT !.pc = "call", !.cb = cb, !.arg = arg, !.in_try = in_try]

\* The callback returned and the thread function ran to its end.
Returned(w) ==
    [w EXCEPT !.pc = "done", !.cb = "", !.arg = <<>>, !.in_try = FALSE]

\* Textual's worker policy (exit_on_error, the default of @work): a worker
\* that raised and was not cancelled brings the application down.
AfterWorker(w, ph) ==
    IF w.pc = "failed" /\ ~w.cancelled THEN "exited" ELSE ph

\* Mutant of QueryScreen: the callback looks its widgets up in the active
\* screen (self.app.query_one) instead of its own.
QueryScreen_app(id) == Top

\* self.query_one in a callback of screen `id`: the screen whose widgets the
\* callback updates is the instance the method is bound to.
QueryScreen(id) == id

\* query_one on a screen whose widgets have left the DOM raises NoMatches.
WidgetsGone(id) == dom[id] = "pruned"

Range(seq) == {seq[i] : i \in 1..Len(seq)}

\* ------------------------------------------- SheetSelectionScreen
\* Mutant of load_sheets: no try/except around the read.
load_sheets_uncaught(w, outcome) ==
    IF outcome.st = "ok"
    THEN Call([w EXCEPT !.outcome = outcome], "update_list", outcome.val, TRUE)
    ELSE [w EXCEPT !.outcome = outcome, !.pc = "failed"]

\* load_sheets, after pd.ExcelFile returned or raised (`outcome`).
load_sheets(w, outcome) ==
    IF outcome.st = "ok"
    THEN Call([w EXCEPT !.outcome = outcome], "update_list", outcome.val, TRUE)
    ELSE Call([w EXCEPT !.outcome = outcome], "show_error", outcome.val, FALSE)

\* load_sheets / load_data when the callback it was blocked on raised `e`:
\* inside the try the except clause reports it, outside it leaves the thread.
load_raised(w, e) ==
    IF w.in_try THEN Call(w, "show_error", e, FALSE)
    ELSE [w EXCEPT !.pc = "failed"]

Reverse(seq) == [i \in 1..Len(seq) |-> seq[Len(seq) + 1 - i]]

\* Mutant of update_list: each entry is inserted at the head of the list.
update_list_reversed(w, sheets) ==
    [w EXCEPT !.loading_msg = Label("removed", <<>>),
              !.sheet_list = Reverse(sheets) \o w.sheet_list,
              !.no_sheets = (sheets = <<>>),
              !.steps = Append(w.steps, "update_list")]

\* SheetSelectionScreen.update_list
update_list(w, sheets) ==
    [w EXCEPT !.loading_msg = Label("removed", <<>>),
              !.sheet_list = w.sheet_list \o sheets,
              !.no_sheets = (sheets = <<>>),
              !.steps = Append(w.steps, "update_list")]

\* SheetSelectionScreen.show_error
sheet_show_error(w, error) ==
    [w EXCEPT !.loading_msg = Label("shown", <<"Error: ", error>>),
              !.steps = Append(w.steps, "show_error")]

SheetOutcomes ==
    {Ok(r) : r \in SheetResults} \cup {Err(e) : e \in ReadErrors}

\* The worker thread of load_sheets comes back from pd.ExcelFile.
LoadSheetsIO(id) ==
    /\ phase = "running"
    /\ KindOf(id) = "SheetList"
    /\ worker[id].pc = "io"
    /\ \E outcome \in SheetOutcomes :
          /\ worker' = [worker EXCEPT ![id] = load_sheets(@, outcome)]
          /\ phase' = AfterWorker(load_sheets(worker[id], outcome), phase)
    /\ UNCHANGED <<widget, rendered>>
    /\ UNCHANGED <<apiKey, screen_stack, screens, dom, ui, df, aiworker,
                   marks>>

\* The UI thread runs update_list for the blocked worker.
UpdateList(id) ==
    /\ phase = "running"
    /\ KindOf(id) = "SheetList"
    /\ worker[id].pc = "call"
    /\ worker[id].cb = "update_list"
    /\ IF WidgetsGone(id)
       THEN /\ worker' = [worker EXCEPT ![id] = load_raised(@, "NoMatches")]
            /\ phase' = AfterWorker(load_raised(worker[id], "NoMatches"), phase)
            /\ UNCHANGED ui
       ELSE /\ ui' = [ui EXCEPT ![QueryScreen(id)] = update_list(@, worker[id].arg)]
            /\ worker' = [worker EXCEPT ![id] = Returned(@)]
            /\ UNCHANGED phase
    /\ UNCHANGED <<widget, rendered>>
    /\ UNCHANGED <<apiKey, screen_stack, screens, dom, df, aiworker, marks>>

\* The UI thread runs SheetSelectionScreen.show_error for the blocked worker.
SheetShowError(id) ==
    /\ phase = "running"
    /\ KindOf(id) = "SheetList"
    /\ worker[id].pc = "call"
    /\ worker[id].cb = "show_error"
    /\ IF WidgetsGone(id)
       THEN /\ worker' = [worker EXCEPT ![id] = load_raised(@, "NoMatches")]
            /\ phase' = AfterWorker(load_raised(worker[id], "NoMatches"), phase)
            /\ UNCHANGED ui
       ELSE /\ ui' = [ui EXCEPT ![QueryScreen(id)] = sheet_show_error(@, worker[id].arg)]
            /\ worker' = [worker EXCEPT ![id] = Returned(@)]
            /\ UNCHANGED phase
    /\ UNCHANGED <<widget, rendered>>
    /\ UNCHANGED <<apiKey, screen_stack, screens, dom, df, aiworker, marks>>

\* --------------------------------------------------- DataViewerScreen
\* str(cell) after df.fillna("")
CellStr(c) ==
    CASE c.t = "nan" -> ""
      [] c.t = "str" -> c.s
      [] c.t = "num" -> ToString(c.n)

\* load_data's display copy: the column names and the rows as strings.
Display(frame) ==
    [columns |-> frame.columns,
     rows |-> [i \in 1..Len(frame.rows) |->
                 [j \in 1..Len(frame.rows[i]) |-> CellStr(frame.rows[i][j])]]]

\* Columns StatsPanel.render shows per section.
NumericShown == 5
TextShown == 3

\* seq[:n]
FirstN(seq, n) == SubSeq(seq, 1, IF Len(seq) < n THEN Len(seq) ELSE n)

\* The dtype pandas infers for column j of a frame with rows: a number
\* column (float64, missing cells are NaN) unless some cell is a text.
IsNumber(frame, j) ==
    \A i \in 1..Len(frame.rows) : frame.rows[i][j].t \in {"num", "nan"}

\* df.select_dtypes(...).columns: the column positions of a dtype, in order.
NumericCols(frame) ==
    SelectSeq([j \in 1..Len(frame.columns) |-> j],
              LAMBDA j : IsNumber(frame, j))

ObjectCols(frame) ==
    SelectSeq([j \in 1..Len(frame.columns) |-> j],
              LAMBDA j : ~IsNumber(frame, j))

\* The rows in which column j holds a number (what min/max/mean/std and
\* dropna keep).
Present(frame, j) == {i \in 1..Len(frame.rows) : frame.rows[i][j].t = "num"}

RECURSIVE SumOver(_, _, _)
SumOver(frame, j, rows) ==
    IF rows = {} THEN 0
    ELSE LET i == CHOOSE r \in rows : TRUE
         IN  frame.rows[i][j].n + SumOver(frame, j, rows \ {i})

RECURSIVE SumSqOver(_, _, _)
SumSqOver(frame, j, rows) ==
    IF rows = {} THEN 0
    ELSE LET i == CHOOSE r \in rows : TRUE
         IN  frame.rows[i][j].n * frame.rows[i][j].n
             + SumSqOver(frame, j, rows \ {i})

\* A statistic as formatted: "nan", or the fraction num/den.
NanValue == [nan |-> TRUE, num |-> 0, den |-> 1]
Value(num, den) == [nan |-> FALSE, num |-> num, den |-> den]

\* Series.min / max / mean / std (skipna): NaN without values; std is the
\* sample deviation (NaN below two values), given by its square num/den.
ColMin(frame, j) ==
    IF Present(frame, j) = {} THEN NanValue
    ELSE Value(CHOOSE v \in {frame.rows[i][j].n : i \in Present(frame, j)} :
                  \A i \in Present(frame, j) : v <= frame.rows[i][j].n, 1)

ColMax(frame, j) ==
    IF Present(frame, j) = {} THEN NanValue
    ELSE Value(CHOOSE v \in {frame.rows[i][j].n : i \in Present(frame, j)} :
                  \A i \in Present(frame, j) : frame.rows[i][j].n <= v, 1)

ColMean(frame, j) ==
    IF Present(frame, j) = {} THEN NanValue
    ELSE Value(SumOver(frame, j, Present(frame, j)),
               Cardinality(Present(frame, j)))

ColStd(frame, j) ==
    LET n == Cardinality(Present(frame, j))
        sum == SumOver(frame, j, Present(frame, j))
    IN  IF n < 2 THEN NanValue
        ELSE Value(n * SumSqOver(frame, j, Present(frame, j)) - sum * sum,
                   n * (n - 1))

\* StatsPanel.render, one numeric column: the heading, then the four
\* statistics; none of the formats raises on NaN (f"{nan:.2f}" is "nan").
NumericBlock(frame, j) ==
    LET line(stat, value) ==
            [column |-> frame.columns[j], line |-> stat, value |-> value]
    IN  << line("heading", NanValue),
           line("Min", ColMin(frame, j)),
           line("Max", ColMax(frame, j)),
           line("Mean", ColMean(frame, j)),
           line("Std", ColStd(frame, j)) >>

\* Series.nunique: the distinct values that are not missing.
NUnique(frame, j) ==
    Cardinality({frame.rows[i][j] : i \in 1..Len(frame.rows)} \ {NaN})

\* StatsPanel.render, one text column.
TextLine(frame, j) ==
    [column |-> frame.columns[j], line |-> "unique",
     value |-> Value(NUnique(frame, j), 1)]

RECURSIVE Flatten(_)
Flatten(seqs) ==
    IF seqs = <<>> THEN <<>> ELSE Head(seqs) \o Flatten(Tail(seqs))

\* StatsPanel.render: the row and column counts of the frame, the blocks of
\* the first numeric columns, the lines of the first text columns.
Stats(frame) ==
    LET numeric == FirstN(NumericCols(frame), NumericShown)
        text == FirstN(ObjectCols(frame), TextShown)
        section(title, cols) ==
            IF Len(cols) > 0
            THEN <<[column |-> "", line |-> title,
                    value |-> Value(Len(cols), 1)]>>
            ELSE <<>>
    IN  <<[rows |-> Len(frame.rows), columns |-> Len(frame.columns)]>>
        \o section("Numeric Columns", NumericCols(frame))
        \o Flatten([k \in 1..Len(numeric) |-> NumericBlock(frame, numeric[k])])
        \o section("Text Columns", ObjectCols(frame))
        \o [k \in 1..Len(text) |-> TextLine(frame, text[k])]

\* A "bar" suggestion: its x_column and y_column.
BarSuggestion(x, y) == [type |-> "bar", x_column |-> x, y_column |-> y]

\* An element of the reply that is not a JSON object (item.get raises).
NotAnObject == [type |-> "<str>"]

\* The position of a column of the frame.
ColumnAt(frame, column) ==
    CHOOSE j \in 1..Len(frame.columns) : frame.columns[j] = column

\* render_ai_charts, one suggestion: what its lines end with.
\*   "chart"       the chart of a bar / pie / histogram suggestion
\*   "not found"   [red]Column(s) ... not found
\*   "no histogram" [red]Could not create histogram (np.histogram raised)
\*   "error"       [red]Error rendering chart (item.get raised, or
\*                 BarChart.render divided texts: the sums of a text column)
\*   "none"        a type that is none of the three: the title only
\* A missing key reads as None, the column name "None" no frame has.
RenderItem(frame, item) ==
    LET cols == Range(frame.columns)
        result ==
            CASE item.type = "<str>" -> "error"
              [] item.type = "bar" ->
                    IF item.x_column \in cols /\ item.y_column \in cols
                    THEN IF IsNumber(frame, ColumnAt(frame, item.y_column))
                         THEN "chart" ELSE "error"
                    ELSE "not found"
              [] item.type = "pie" ->
                    IF item.column \in cols THEN "chart" ELSE "not found"
              [] item.type = "histogram" ->
                    IF item.column \in cols
                    THEN IF IsNumber(frame, ColumnAt(frame, item.column))
                         THEN "chart" ELSE "no histogram"
                    ELSE "not found"
              [] OTHER -> "none"
    IN  [item |-> item, result |-> result]

\* load_data, after pd.read_excel returned or raised (`outcome`).
load_data(w, outcome) ==
    IF outcome.st = "ok"
    THEN Call([w EXCEPT !.outcome = outcome], "populate_ui",
              Display(outcome.val), TRUE)
    ELSE Call([w EXCEPT !.outcome = outcome], "show_error", outcome.val, FALSE)

\* self.df after load_data's read: assigned in the worker thread on success.
load_data_df(old, outcome) == IF outcome.st = "ok" THEN outcome.val ELSE old

\* populate_ui's table part: add_columns, add_rows.
populate_table(w, columns, rows) ==
    [w EXCEPT !.data_table = [columns |-> w.data_table.columns \o columns,
                              rows |-> w.data_table.rows \o rows],
              !.steps = Append(w.steps, "populate_table")]

\* DataViewerScreen.populate_statistics
populate_statistics(w, frame) ==
    [w EXCEPT !.stats_panel = Panel("stats", Stats(frame)),
              !.steps = Append(w.steps, "populate_statistics")]

\* DataViewerScreen.populate_charts: the placeholder text; the method then
\* starts generate_ai_charts (see PopulateUi).
populate_charts(w) ==
    [w EXCEPT !.charts_panel = Panel("asking", <<>>),
              !.steps = Append(w.steps, "populate_charts")]

\* Mutant of populate_ui: the charts are requested before the statistics.
populate_ui_charts_first(w, frame, columns, rows) ==
    populate_statistics(populate_charts(populate_table(w, columns, rows)), frame)

\* DataViewerScreen.populate_ui
populate_ui(w, frame, columns, rows) ==
    populate_charts(populate_statistics(populate_table(w, columns, rows), frame))

\* Mutant of show_error: the handler clears the table to show the error.
data_show_error_clears(w, error) ==
    [w EXCEPT !.data_table = [columns |-> <<>>, rows |-> <<>>]]

\* DataViewerScreen.show_error
data_show_error(w, error) == w

\* generate_ai_charts, after the key lookup and the request (`outcome`).
generate_ai_charts(w, key, outcome) ==
    IF key = ""
    THEN Call([w EXCEPT !.outcome = Err("No API Key found")], "show_error",
              <<"No API Key found">>, FALSE)
    ELSE IF outcome.st = "ok"
    THEN Call([w EXCEPT !.outcome = outcome], "render_ai_charts",
              outcome.val, TRUE)
    ELSE Call([w EXCEPT !.outcome = outcome], "show_error",
              <<"AI Error: ", outcome.val>>, FALSE)

\* generate_ai_charts when the callback it was blocked on raised `e`.
ai_raised(w, e) ==
    IF w.in_try THEN Call(w, "show_error", <<"AI Error: ", e>>, FALSE)
    ELSE [w EXCEPT !.pc = "failed"]

\* Mutant of render_ai_charts: one try block around the whole loop, so the
\* first suggestion that raises ends the batch.
render_ai_charts_one_try(w, frame, items) ==
    LET raised == {i \in 1..Len(items) : RenderItem(frame, items[i]).result = "error"}
        last == IF raised = {} THEN Len(items)
                ELSE CHOOSE i \in raised : \A k \in raised : i <= k
    IN  [w EXCEPT !.charts_panel =
                     Panel("rendered",
                           [i \in 1..last |-> RenderItem(frame, items[i])]),
                  !.steps = Append(w.steps, "render_ai_charts")]

\* DataViewerScreen.render_ai_charts over a list of suggestions.
render_ai_charts(w, frame, items) ==
    [w EXCEPT !.charts_panel =
                 Panel("rendered",
                       [i \in 1..Len(items) |-> RenderItem(frame, items[i])]),
              !.steps = Append(w.steps, "render_ai_charts")]

DataOutcomes == {Ok(f) : f \in Frames} \cup {Err(e) : e \in ReadErrors}

AiOutcomes == {Ok(r) : r \in AiReplies} \cup {Err(e) : e \in AiErrors}

\* The worker thread of load_data comes back from pd.read_excel.
LoadDataIO(id) ==
    /\ phase = "running"
    /\ KindOf(id) = "DataView"
    /\ worker[id].pc = "io"
    /\ \E outcome \in DataOutcomes :
          /\ worker' = [worker EXCEPT ![id] = load_data(@, outcome)]
          /\ df' = [df EXCEPT ![id] = load_data_df(@, outcome)]
          /\ phase' = AfterWorker(load_data(worker[id], outcome), phase)
    /\ UNCHANGED <<widget, rendered>>
    /\ UNCHANGED <<apiKey, screen_stack, screens, dom, ui, aiworker, marks>>

\* The UI thread runs populate_ui for the blocked worker.
PopulateUi(id) ==
    /\ phase = "running"
    /\ KindOf(id) = "DataView"
    /\ worker[id].pc = "call"
    /\ worker[id].cb = "populate_ui"
    /\ IF WidgetsGone(id)
       THEN /\ worker' = [worker EXCEPT ![id] = load_raised(@, "NoMatches")]
            /\ phase' = AfterWorker(load_raised(worker[id], "NoMatches"), phase)
            /\ UNCHANGED <<ui, aiworker>>
       ELSE /\ ui' = [ui EXCEPT ![QueryScreen(id)] =
                        populate_ui(@, df[id], worker[id].arg.columns,
                                    worker[id].arg.rows)]
            /\ aiworker' = [aiworker EXCEPT ![id] = StartedWorker]
            /\ worker' = [worker EXCEPT ![id] = Returned(@)]
            /\ UNCHANGED phase
    /\ UNCHANGED <<widget, rendered>>
    /\ UNCHANGED <<apiKey, screen_stack, screens, dom, df, marks>>

\* The UI thread runs DataViewerScreen.show_error for load_data.
DataShowError(id) ==
    /\ phase = "running"
    /\ KindOf(id) = "DataView"
    /\ worker[id].pc = "call"
    /\ worker[id].cb = "show_error"
    /\ ui' = [ui EXCEPT ![QueryScreen(id)] = data_show_error(@, worker[id].arg)]
    /\ worker' = [worker EXCEPT ![id] = Returned(@)]
    /\ UNCHANGED <<widget, rendered>>
    /\ UNCHANGED <<phase, apiKey, screen_stack, screens, dom, df, aiworker,
                   marks>>

\* The worker thread of generate_ai_charts: key lookup, request, json.loads.
GenerateAiChartsIO(id) ==
    /\ phase = "running"
    /\ aiworker[id].pc = "io"
    /\ \E outcome \in AiOutcomes :
          /\ aiworker' = [aiworker EXCEPT ![id] =
                            generate_ai_charts(@, apiKey, outcome)]
          /\ phase' = AfterWorker(
                        generate_ai_charts(aiworker[id], apiKey, outcome), phase)
    /\ UNCHANGED <<widget, rendered>>
    /\ UNCHANGED <<apiKey, screen_stack, screens, dom, ui, df, worker, marks>>

\* The UI thread runs render_ai_charts for the blocked worker.
RenderAiCharts(id) ==
    /\ phase = "running"
    /\ aiworker[id].pc = "call"
    /\ aiworker[id].cb = "render_ai_charts"
    /\ IF WidgetsGone(id)
       THEN /\ aiworker' = [aiworker EXCEPT ![id] = ai_raised(@, "NoMatches")]
            /\ phase' = AfterWorker(ai_raised(aiworker[id], "NoMatches"), phase)
            /\ UNCHANGED ui
       ELSE IF ~aiworker[id].arg.iterable
       THEN /\ aiworker' = [aiworker EXCEPT ![id] = ai_raised(@, "TypeError")]
            /\ phase' = AfterWorker(ai_raised(aiworker[id], "TypeError"), phase)
            /\ UNCHANGED ui
       ELSE /\ ui' = [ui EXCEPT ![QueryScreen(id)] =
                        render_ai_charts(@, df[id], aiworker[id].arg.items)]
            /\ aiworker' = [aiworker EXCEPT ![id] = Returned(@)]
            /\ UNCHANGED phase
    /\ UNCHANGED <<widget, rendered>>
    /\ UNCHANGED <<apiKey, screen_stack, screens, dom, df, worker, marks>>

\* The UI thread runs DataViewerScreen.show_error for generate_ai_charts.
AiShowError(id) ==
    /\ phase = "running"
    /\ aiworker[id].pc = "call"
    /\ aiworker[id].cb = "show_error"
    /\ ui' = [ui EXCEPT ![QueryScreen(id)] = data_show_error(@, aiworker[id].arg)]
    /\ aiworker' = [aiworker EXCEPT ![id] = Returned(@)]
    /\ UNCHANGED <<widget, rendered>>
    /\ UNCHANGED <<phase, apiKey, screen_stack, screens, dom, df, worker,
                   marks>>

\* ------------------------------------------------------------------ Next
Next ==
    \/ AppOnMount
    \/ \E key \in KeyInputs : submit_key(key)
    \/ \E i \in 1..2 : select_file(i)
    \/ \E i \in 1..2 : select_sheet(i)
    \/ action_pop_screen
    \/ action_quit
    \/ \E id \in ScreenIds : Prune(id)
    \/ \E id \in ScreenIds : LoadSheetsIO(id)
    \/ \E id \in ScreenIds : UpdateList(id)
    \/ \E id \in ScreenIds : SheetShowError(id)
    \/ \E id \in ScreenIds : LoadDataIO(id)
    \/ \E id \in ScreenIds : PopulateUi(id)
    \/ \E id \in ScreenIds : DataShowError(id)
    \/ \E id \in ScreenIds : GenerateAiChartsIO(id)
    \/ \E id \in ScreenIds : RenderAiCharts(id)
    \/ \E id \in ScreenIds : AiShowError(id)

Spec == Init /\ [][Next]_vars

\* The worker threads run and the UI loop serves every call_from_thread
\* hand-off: the sheet-list load is not starved.
FairSpec ==
    /\ Spec
    /\ \A id \in ScreenIds :
          /\ WF_vars(LoadSheetsIO(id))
          /\ WF_vars(UpdateList(id))
          /\ WF_vars(SheetShowError(id))

\* ============================================================== widgets
\* The Static widgets of the Charts and Statistics tabs, rendered on their
\* own: a widget object is constructed over bounded data and render() runs.

\* Entries of a bar series, the largest value in it, and the widest bar.
MaxSeriesLen == 2
MaxValue == 3
MaxWidth == 4

\* The value lists of the series BarChart is constructed over (the dict's
\* values in insertion order; the empty dict included).
BarSeries == UNION {[1..n -> 0..MaxValue] : n \in 0..MaxSeriesLen}

\* The dict as (label, value) items; keys are distinct.
BarData(values) ==
    [i \in 1..Len(values) |-> [label |-> ToString(i), value |-> values[i]]]

\* max(self.data.values())
MaxOf(data) ==
    CHOOSE v \in {data[i].value : i \in 1..Len(data)} :
        \A i \in 1..Len(data) : data[i].value <= v

\* Mutant of max_value: the first value of the series stands for its maximum.
max_value_first(data) == IF data # <<>> THEN data[1].value ELSE 1

\* BarChart.render: max_value
max_value(data) == IF data # <<>> THEN MaxOf(data) ELSE 1

\* Mutant of bar_length: the quotient is rounded to the nearest integer.
bar_length_rounded(value, maxv, max_bar_length) ==
    IF maxv > 0 THEN (2 * value * max_bar_length + maxv) \div (2 * maxv) ELSE 0

\* BarChart.render: bar_length, the integer part of
\* (value / max_value) * max_bar_length for non-negative values.
bar_length(value, maxv, max_bar_length) ==
    IF maxv > 0 THEN (value * max_bar_length) \div maxv ELSE 0

\* BarChart.render: one line per item (label, bar of bar_length blocks,
\* value), or the "No data to display" text.
BarChart_render(data, max_bar_length) ==
    IF data = <<>> THEN Panel("no data", <<>>)
    ELSE Panel("rendered",
               [i \in 1..Len(data) |->
                   [label |-> data[i].label,
                    bar |-> bar_length(data[i].value, max_value(data),
                                       max_bar_length),
                    value |-> data[i].value]])

\* BarChart(data, max_bar_length)
BarChart(data, max_bar_length) ==
    [cls |-> "BarChart", data |-> data, max_bar_length |-> max_bar_length]

BarCharts ==
    {BarChart(BarData(values), width) :
        values \in BarSeries, width \in 0..MaxWidth}

\* DataFrames StatsPanel is constructed over: a text column, and a number
\* column with two, one or none of its values present.
StatCells == {Num(100), Num(150), NaN}

StatFrames ==
    { [columns |-> <<"Region", "Revenue">>,
       rows |-> << <<Txt("East"), a>>, <<NaN, b>> >>] : a, b \in StatCells }

\* StatsPanel(df)
StatsPanel(frame) == [cls |-> "StatsPanel", df |-> frame]

StatsPanels == {StatsPanel(frame) : frame \in StatFrames}

\* Suggestions per rendered batch.
MaxBatch == 2

\* Suggestions a reply may hold: a column that exists, one that does not,
\* one that is left out, one that cannot be charted; an unknown chart type;
\* an element that is no object.
Suggestions ==
    { Suggestion("pie", "Region"), Suggestion("pie", "Nope"),
      Suggestion("pie", "None"),
      Suggestion("histogram", "Revenue"), Suggestion("histogram", "Region"),
      BarSuggestion("Region", "Revenue"), BarSuggestion("Region", "Region"),
      BarSuggestion("Region", "None"),
      Suggestion("table", "Region"), NotAnObject }

Batches == UNION {[1..n -> Suggestions] : n \in 0..MaxBatch}

\* A DataViewerScreen with its frame loaded, handed a batch to render.
ChartsPanel(frame, items) ==
    [cls |-> "DataViewerScreen", df |-> frame, suggestions |-> items]

ChartsPanels ==
    {ChartsPanel(frame, items) : frame \in Frames, items \in Batches}

\* The application part of the state while a widget is rendered on its own.
NoApp ==
    /\ phase = "init"
    /\ apiKey = ""
    /\ screen_stack = <<0>>
    /\ screens = [id \in ScreenIds |->
                    IF id = 0 THEN [NoScreen EXCEPT !.kind = "Default"]
                    ELSE NoScreen]
    /\ dom = [id \in ScreenIds |-> IF id = 0 THEN "mounted" ELSE "unused"]
    /\ ui = [id \in ScreenIds |-> NoWidgets]
    /\ df = [id \in ScreenIds |-> <<>>]
    /\ worker = [id \in ScreenIds |-> NoWorker]
    /\ aiworker = [id \in ScreenIds |-> NoWorker]
    /\ marks = <<>>

appvars == <<phase, apiKey, screen_stack, screens, dom, ui, df, worker,
             aiworker, marks>>

\* BarChart.render on the constructed chart.
BarChartRender ==
    /\ widget.cls = "BarChart"
    /\ rendered.state = "empty"
    /\ rendered' = BarChart_render(widget.data, widget.max_bar_length)
    /\ UNCHANGED widget
    /\ UNCHANGED appvars

\* StatsPanel.render on the constructed panel.
StatsPanelRender ==
    /\ widget.cls = "StatsPanel"
    /\ rendered.state = "empty"
    /\ rendered' = Panel("stats", Stats(widget.df))
    /\ UNCHANGED widget
    /\ UNCHANGED appvars

\* DataViewerScreen.render_ai_charts on the batch: charts_panel.update.
RenderBatch ==
    /\ widget.cls = "DataViewerScreen"
    /\ rendered.state = "empty"
    /\ rendered' = render_ai_charts(NoWidgets, widget.df,
                                    widget.suggestions).charts_panel
    /\ UNCHANGED widget
    /\ UNCHANGED appvars

WidgetInit ==
    /\ NoApp
    /\ widget \in BarCharts \cup StatsPanels \cup ChartsPanels
    /\ rendered = Panel("empty", <<>>)

WidgetNext ==
    \/ BarChartRender
    \/ StatsPanelRender
    \/ RenderBatch

WidgetSpec == WidgetInit /\ [][WidgetNext]_vars

\* ================================================================ claims
AppKinds == {"ApiKey", "FileList", "SheetList", "DataView"}

DataViews == {id \in ScreenIds : KindOf(id) = "DataView"}

SheetLists == {id \in ScreenIds : KindOf(id) = "SheetList"}

\* The screen's UI methods ran `a` before `b` (and ran `b` only after `a`).
Before(steps, a, b) ==
    \A k \in 1..Len(steps) :
        steps[k] = b => \E j \in 1..(k - 1) : steps[j] = a

\* C1: a back action never leaves the application running with none of its
\* own screens active; at the entry screen it exits instead of popping.
C1_BackAtRootExits == phase = "running" => KindOf(Top) \in AppKinds

\* C2: N forward navigations followed by N back actions restore the stack
\* as it was before them - same screens, order and parameters - and the
\* application still runs. `marks` holds the stack saved at each forward
\* push not yet undone; a back action that undoes one must restore it.
C2_StackDiscipline ==
    [][(marks # <<>> /\ marks' = Front(marks))
         => (StackView' = marks[Len(marks)] /\ phase' = "running")]_vars

\* C2 witness: a SheetList and a DataView were pushed and both popped again.
C2_Witness ==
    /\ phase = "running"
    /\ marks = <<>>
    /\ KindOf(Top) = "FileList"
    /\ \E d \in DataViews : dom[d] # "mounted"
    /\ \E s \in SheetLists : dom[s] # "mounted"

\* C3: a background result completing after its screen left the top of the
\* stack is discarded: no step changes the widgets of a screen that is not
\* the active one.
C3_LateResultsDiscarded ==
    [][\A id \in ScreenIds :
          (dom[id] # "unused" /\ id # Top) => ui'[id] = ui[id]]_vars

\* C4: when the table read of a DataView failed and the failure was handed
\* to the screen, the (still mounted) screen displays the error: something
\* in its widgets differs from the freshly composed, empty screen.
C4_ReadErrorDisplayed ==
    \A id \in DataViews :
        (/\ dom[id] = "mounted"
         /\ worker[id].pc = "done"
         /\ worker[id].outcome.st = "err")
        => ui[id] # Composed("DataView", <<>>)

\* C5: statistics and the chart request of a DataView start only after its
\* table read succeeded, statistics before the chart request; after a failed
\* read neither starts.
C5_StatsAndChartsAfterRead ==
    \A id \in DataViews :
        LET steps == ui[id].steps
            started ==
                \/ "populate_statistics" \in Range(steps)
                \/ "populate_charts" \in Range(steps)
                \/ ui[id].stats_panel.state # "empty"
                \/ ui[id].charts_panel.state # "empty"
                \/ aiworker[id].pc # "none"
        IN  /\ started => worker[id].outcome.st = "ok"
            /\ Before(steps, "populate_statistics", "populate_charts")
            /\ aiworker[id].pc # "none" =>
                  /\ "populate_charts" \in Range(steps)
                  /\ ui[id].stats_panel.state = "stats"
            /\ worker[id].outcome.st = "err" => ~started

\* C5 witness: a DataView whose read succeeded, with statistics shown and
\* the chart request started.
C5_Witness ==
    \E id \in DataViews :
        /\ worker[id].outcome.st = "ok"
        /\ ui[id].stats_panel.state = "stats"
        /\ aiworker[id].pc # "none"

\* C6: after a successful read, when the insight request failed and the
\* failure was handed to the (still mounted) screen, the charts sub-view
\* shows an error: it no longer shows the "asking" placeholder.
C6_InsightErrorDisplayed ==
    \A id \in DataViews :
        (/\ dom[id] = "mounted"
         /\ worker[id].outcome.st = "ok"
         /\ aiworker[id].pc = "done"
         /\ aiworker[id].outcome.st = "err")
        => ui[id].charts_panel.state \notin {"empty", "asking"}

\* The worker is on the failure path of the insight request.
AiFailing(w) == w.outcome.st = "err" \/ w.cb = "show_error"

\* C7: every step of a failing insight request (the failed request, the
\* hand-off of the failure, the error handler) leaves the screen's data
\* table, its statistics panel and the screen stack as they were.
C7_InsightFailureFrame ==
    [][\A id \in ScreenIds :
          (/\ aiworker'[id].pc # aiworker[id].pc \/ aiworker'[id].cb # aiworker[id].cb
           /\ AiFailing(aiworker[id]) \/ AiFailing(aiworker'[id]))
          => /\ ui'[id].data_table = ui[id].data_table
             /\ ui'[id].stats_panel = ui[id].stats_panel
             /\ screen_stack' = screen_stack]_vars

\* C7 witness: an insight failure fully handled on a populated DataView.
C7_Witness ==
    \E id \in DataViews :
        /\ aiworker[id].pc = "done"
        /\ aiworker[id].outcome.st = "err"
        /\ ui[id].data_table.columns # <<>>
        /\ ui[id].stats_panel.state = "stats"

C9_SubmitKey ==
    [][\A key \in KeyInputs :
          submit_key(key) =>
             IF key # ""
             THEN /\ apiKey' = key
                  /\ Len(screen_stack') = Len(screen_stack)
                  /\ screens'[screen_stack'[Len(screen_stack')]].kind = "FileList"
                  /\ \A i \in 1..Len(screen_stack') :
                        screens'[screen_stack'[i]].kind # "ApiKey"
             ELSE /\ apiKey' = apiKey
                  /\ screen_stack' = screen_stack]_vars

\* C9 witness: a credential was submitted: the CredentialEntry screen is
\* off the stack and FileList is active.
C9_Witness ==
    /\ apiKey \in KeyInputs \ {""}
    /\ KindOf(Top) = "FileList"
    /\ \E id \in ScreenIds : KindOf(id) = "ApiKey" /\ dom[id] # "mounted"

\* The sheet list of `id` shows the outcome of its load.
SheetSettled(id) ==
    /\ worker[id].pc = "done"
    /\ IF worker[id].outcome.st = "ok"
       THEN /\ ui[id].loading_msg.state = "removed"
            /\ ui[id].sheet_list = worker[id].outcome.val
       ELSE /\ ui[id].loading_msg =
                  Label("shown", <<"Error: ", worker[id].outcome.val>>)
            /\ ui[id].sheet_list = <<>>

\* C10: a pushed SheetList that stays mounted eventually ends its loading
\* state: the list shows exactly the names listSheets returned, in order
\* (possibly none), or the error text and no entries.
C10_SheetListLoads ==
    \A id \in ScreenIds :
        (KindOf(id) = "SheetList" /\ dom[id] = "mounted" /\ phase = "running")
        ~> (SheetSettled(id) \/ dom[id] # "mounted" \/ phase # "running")

\* C10 witness: a mounted SheetList showing the two sheets of its workbook.
C10_Witness ==
    \E id \in SheetLists :
        /\ dom[id] = "mounted"
        /\ SheetSettled(id)
        /\ worker[id].outcome.st = "ok"
        /\ Len(ui[id].sheet_list) = 2

\* ------------------------------------------------------------- BarChart
\* A BarChart over a non-empty series has been rendered.
BarsRendered == widget.cls = "BarChart" /\ rendered.state = "rendered"

\* The divisor of the bar formula: the maximum, 1 for an all-zero series.
Divisor(data) == IF MaxOf(data) > 0 THEN MaxOf(data) ELSE 1

\* C11 as stated: for every non-empty series of non-negative values and
\* every maxBarWidth, each entry holding the maximum value gets a bar of
\* exactly maxBarWidth characters.
C11_MaxBarFullWidth ==
    BarsRendered =>
        \A i \in 1..Len(widget.data) :
            widget.data[i].value = MaxOf(widget.data)
            => rendered.lines[i].bar = widget.max_bar_length

\* C11 amended: the same, for the series whose maximum value is positive
\* (an all-zero series gets bars of length 0).
C11_MaxBarFullWidthPositive ==
    (BarsRendered /\ MaxOf(widget.data) > 0) =>
        \A i \in 1..Len(widget.data) :
            widget.data[i].value = MaxOf(widget.data)
            => rendered.lines[i].bar = widget.max_bar_length

\* C11 witness: a rendered two-entry series with distinct values, the
\* smaller one first, at the widest bar width.
C11_Witness ==
    /\ BarsRendered
    /\ Len(widget.data) = 2
    /\ 0 < widget.data[1].value
    /\ widget.data[1].value < widget.data[2].value
    /\ widget.max_bar_length = MaxWidth
    /\ rendered.lines[2].bar = MaxWidth

HasText(frame, column) ==
    \E i \in 1..Len(frame.rows) :
        frame.rows[i][ColumnAt(frame, column)].t = "str"

\* The suggestion's column reference is missing or names no column of the
\* table, or the column cannot be charted as asked; or the element is no
\* suggestion object at all.
Unchartable(frame, item) ==
    LET cols == Range(frame.columns)
    IN  CASE item.type = "bar" ->
                \/ item.x_column \notin cols
                \/ item.y_column \notin cols
                \/ HasText(frame, item.y_column)
          [] item.type = "pie" -> item.column \notin cols
          [] item.type = "histogram" ->
                item.column \notin cols \/ HasText(frame, item.column)
          [] OTHER -> item.type = "<str>"

Chartable(frame, item) ==
    item.type \in {"bar", "pie", "histogram"} /\ ~Unchartable(frame, item)

InlineErrors == {"not found", "no histogram", "error"}

\* A batch of suggestions has been rendered into the charts sub-view.
BatchRendered == widget.cls = "DataViewerScreen" /\ rendered.state # "empty"

\* C13: rendering a batch updates the charts sub-view with one entry per
\* suggestion, in the batch's order; a suggestion whose column reference is
\* missing, names no column, or cannot be charted gets an inline error, and
\* every suggestion that can be charted gets its chart whatever the others
\* in the batch are.
C13_RenderErrorPerItem ==
    BatchRendered =>
        /\ rendered.state = "rendered"
        /\ Len(rendered.lines) = Len(widget.suggestions)
        /\ \A i \in 1..Len(rendered.lines) :
              /\ rendered.lines[i].item = widget.suggestions[i]
              /\ Unchartable(widget.df, widget.suggestions[i])
                    => rendered.lines[i].result \in InlineErrors
              /\ Chartable(widget.df, widget.suggestions[i])
                    => rendered.lines[i].result = "chart"

\* C13 witness: a rendered batch whose first element raised while being
\* rendered and whose second suggestion got its chart.
C13_Witness ==
    /\ BatchRendered
    /\ Len(rendered.lines) = 2
    /\ rendered.lines[1].result = "error"
    /\ rendered.lines[2].result = "chart"

\* ------------------------------------------------------------ StatsPanel
\* The statistics of a frame have been rendered.
StatsRendered == widget.cls = "StatsPanel" /\ rendered.state = "stats"

\* Column j is numeric and none of its values is present.
AllMissing(frame, j) ==
    \A i \in 1..Len(frame.rows) : frame.rows[i][j].t = "nan"

\* Positions 2.. of the rendered statistics: the lines of the columns.
ColumnLines == {rendered.lines[k] : k \in 2..Len(rendered.lines)}

\* C14: for a numeric column whose values are all missing, the rendered
\* statistics hold no entry for the column - no heading, no min / max /
\* mean / std line - and so no NaN for it.
C14_AllMissingOmitted ==
    StatsRendered =>
        \A j \in 1..Len(widget.df.columns) :
            AllMissing(widget.df, j) =>
                \A l \in ColumnLines : l.column # widget.df.columns[j]

\* ------------------------------------------------------------- threads
\* The step is one a worker thread takes inside load_sheets, load_data or
\* generate_ai_charts (everything before it blocks in call_from_thread).
WorkerThreadStep(id) ==
    LoadSheetsIO(id) \/ LoadDataIO(id) \/ GenerateAiChartsIO(id)

\* C15: no worker-thread step of load_sheets, load_data or
\* generate_ai_charts changes state the UI reads - the screen's widgets
\* (sheet list, table, statistics, charts, error text) or its loaded table.
C15_WorkersDoNotMutate ==
    [][\A id \in ScreenIds :
          WorkerThreadStep(id) => (ui' = ui /\ df' = df)]_vars

\* ---------------------------------------------------------- load starts
\* The step enters the blocking read of screen id's load.
LoadStarted(id) == worker[id].pc # "io" /\ worker'[id].pc = "io"

\* The step constructs screen `id` and pushes it on top of the stack.
Pushed(id) ==
    /\ dom[id] = "unused"
    /\ dom'[id] = "mounted"
    /\ screen_stack'[Len(screen_stack')] = id

Loading == {"SheetList", "DataView"}

\* C16: a load starts exactly in the step that pushes a SheetList or a
\* DataView, for the pushed instance, which starts from the freshly composed
\* state (no table, statistics or suggestions yet); a back action starts no
\* load, and no screen's read is entered twice.
C16_LoadOncePerPush ==
    [][/\ \A id \in ScreenIds :
             /\ LoadStarted(id) => (Pushed(id) /\ screens'[id].kind \in Loading)
             /\ (Pushed(id) /\ screens'[id].kind \in Loading) =>
                   /\ LoadStarted(id)
                   /\ worker'[id].outcome.st = "none"
                   /\ aiworker'[id].pc = "none"
                   /\ df'[id] = <<>>
                   /\ ui'[id] = Composed(screens'[id].kind, <<>>)
             /\ worker[id].pc \in {"call", "done", "failed"} =>
                   worker'[id].pc # "io"
       /\ Len(screen_stack') < Len(screen_stack) =>
             \A id \in ScreenIds :
                 /\ ~LoadStarted(id)
                 /\ aiworker'[id].pc = "io" => aiworker[id].pc = "io"]_vars

\* C16 witness: the same file was selected again after a back action: the
\* first SheetList, popped, holds its loaded list; the second one, for the
\* same path, is in its own read with nothing listed.
C16_Witness ==
    \E a, b \in SheetLists :
        /\ a # b
        /\ screens[a].file_path = screens[b].file_path
        /\ dom[a] # "mounted"
        /\ worker[a].pc = "done"
        /\ ui[a].sheet_list # <<>>
        /\ Top = b
        /\ worker[b].pc = "io"
        /\ ui[b].sheet_list = <<>>

\* ------------------------------------------------------------ credential
Gated == {"FileList", "SheetList", "DataView"}

\* C17: the entry screen pushed at startup is CredentialEntry exactly when
\* no credential is present and FileList otherwise; whenever a FileList,
\* SheetList or DataView is on the stack a credential is present; a stored
\* credential is never cleared.
C17_CredentialGating ==
    [][/\ (phase = "init" /\ phase' = "running") =>
             screens'[screen_stack'[Len(screen_stack')]].kind =
                 (IF apiKey = "" THEN "ApiKey" ELSE "FileList")
       /\ (\E i \in 1..Len(screen_stack') :
              screens'[screen_stack'[i]].kind \in Gated) => apiKey' # ""
       /\ apiKey # "" => apiKey' # ""]_vars

\* C17 witness: started without a credential, one was submitted and a file
\* was then opened.
C17_Witness ==
    /\ apiKey \in KeyInputs \ {""}
    /\ KindOf(Top) = "SheetList"
    /\ \E id \in ScreenIds : KindOf(id) = "ApiKey"

\* ----------------------------------------------------------- stack shape
\* The application's screens on the stack, above Textual's default screen.
AppStack == Tail(screen_stack)

\* C18: the application's screens on the stack are, bottom to top, a prefix
\* of: the entry screen (CredentialEntry or FileList), a SheetList, a
\* DataView; a SheetList stands only directly above FileList, a DataView
\* only directly above a SheetList of the same file path.
C18_StackShape ==
    /\ screen_stack[1] = 0
    /\ Len(AppStack) <= 3
    /\ Len(AppStack) >= 1 => KindOf(AppStack[1]) \in {"ApiKey", "FileList"}
    /\ Len(AppStack) >= 2 =>
          /\ KindOf(AppStack[1]) = "FileList"
          /\ KindOf(AppStack[2]) = "SheetList"
    /\ Len(AppStack) >= 3 =>
          /\ KindOf(AppStack[3]) = "DataView"
          /\ screens[AppStack[3]].file_path = screens[AppStack[2]].file_path

\* C18 witness: the whole chain is on the stack.
C18_Witness ==
    /\ phase = "running"
    /\ Len(AppStack) = 3
    /\ KindOf(Top) = "DataView"

\* ------------------------------------------------------- result routing
\* The step finishes a hand-off of screen id's own worker.
ServedOwn(id) ==
    \/ worker[id].pc = "call" /\ worker'[id].pc = "done"
    \/ aiworker[id].pc = "call" /\ aiworker'[id].pc = "done"

\* C19: the displayed state of a constructed screen changes only in a step
\* that serves a hand-off of that screen's own worker, and what is written
\* is that worker's result; the loaded table of a screen is set only by its
\* own read.
C19_ResultsToOwnScreen ==
    [][\A id \in ScreenIds :
          /\ (dom[id] # "unused" /\ ui'[id] # ui[id]) =>
                /\ ServedOwn(id)
                /\ (worker[id].pc = "call" /\ worker[id].cb = "update_list") =>
                      ui'[id].sheet_list = ui[id].sheet_list \o worker[id].arg
                /\ (worker[id].pc = "call" /\ worker[id].cb = "populate_ui") =>
                      /\ ui'[id].data_table.rows = worker[id].arg.rows
                      /\ ui'[id].stats_panel.lines = Stats(df[id])
                /\ (aiworker[id].pc = "call"
                    /\ aiworker[id].cb = "render_ai_charts") =>
                      Len(ui'[id].charts_panel.lines) = Len(aiworker[id].arg.items)
          /\ df'[id] # df[id] =>
                (worker[id].pc = "io" /\ worker'[id].pc = "call")]_vars

\* C19 witness: two SheetList instances created one after the other, each
\* showing the outcome of its own read: the first, popped, its error; the
\* second its sheets.
C19_Witness ==
    \E a, b \in SheetLists :
        /\ a < b
        /\ dom[a] # "mounted"
        /\ worker[a].pc = "done" /\ worker[a].outcome.st = "err"
        /\ ui[a].loading_msg.state = "shown" /\ ui[a].sheet_list = <<>>
        /\ worker[b].pc = "done" /\ worker[b].outcome.st = "ok"
        /\ ui[b].loading_msg.state = "removed"
        /\ ui[b].sheet_list = worker[b].outcome.val
        /\ ui[b].sheet_list # <<>>

====
